---- MODULE Spec2Model ----
(***************************************************************************)
(* Model of the test-case orchestration pipeline of oagi-hack-night:       *)
(*   main.py            main (the batch loop)                              *)
(*   manual_tester.py   run_oagi_agent, process_test_case, print_summary   *)
(*   judge.py           EaseOfUseEvaluation, evaluate_ease_of_use          *)
(* The external agent process, the file system and the LLM judge are the   *)
(* environment: each of their outcomes is a nondeterministic choice.       *)
(***************************************************************************)
EXTENDS Integers, Sequences, FiniteSets, TLC

(* ---------------------------- bounds ----------------------------------- *)

\* Largest batch explored.
MaxCases == 2

\* Largest list of results handed to print_summary on its own.
MaxResults == 3

\* A text is the sequence of its characters; Text(n) is a text of length n.
Text(n) == [k \in 1..n |-> "x"]

\* Task statements that may appear in a batch.
Tasks == {<< "a" >>, << "b" >>}

\* The single success criterion used in the explored batches.
Criteria == {<< "c" >>}

(* ----------------------- values and sentinels -------------------------- *)

\* Python None for Optional[str] fields (distinct from the empty string "").
None == "<None>"

\* Python None for the Optional[float] field ease_score.
NoScore == -1

\* Outcomes of one subprocess.run(cmd, check=True):
\*   "ok"        the process ran and exited 0
\*   "nonzero"   the process ran and exited non-zero (CalledProcessError)
\*   "notfound"  the executable is not locatable (FileNotFoundError)
\*   "oserror"   the launch failed otherwise (e.g. PermissionError), which
\*               neither except clause of the primary try names
LaunchOutcomes == {"ok", "nonzero", "notfound", "oserror"}

\* str(e) of the exception of each failing launch outcome.
LaunchError(outcome) ==
    CASE outcome = "nonzero"  -> "returned non-zero exit status"
      [] outcome = "notfound" -> "No such file or directory"
      [] outcome = "oserror"  -> "Permission denied"
      [] OTHER                -> None

\* What the external agent leaves at its --export-file path.
ToolEffects == {"none", "write", "write_unreadable"}

\* Values of os.getenv("OPENROUTER_API_KEY"): unset, empty, or a key.
EnvKeys == {"unset", "empty", "key"}

\* The structured responses the judge may produce before validation: scores
\* around both ends of the 1..10 range, empty and non-empty texts.
RawScores == {0, 1, 10, 11}

RawResponses ==
    [summary : {"", "s"}, ease_score : RawScores, justification : {"", "j"}]

\* str(e) of exceptions raised by the judge call itself (transport, auth);
\* an exception constructed without arguments has the empty message.
CallErrors == {"", "Request timed out."}

\* What evaluate_ease_of_use yields when no evaluation is returned.
NoEvaluation == [summary |-> None, ease_score |-> NoScore, justification |-> None]

VARIABLES
    entry,         \* the script run: "main" (main.py) or "manual_tester"
    yaml_input,    \* the YAML file named on the command line
    test_cases,    \* main.py: the list returned by parse_test_cases
    env_key,       \* value of OPENROUTER_API_KEY in the host environment
    fs,            \* file system: number n of execution_log_<n>.md -> file
    pc,            \* position of main.main: "parse", "exit" (SystemExit),
                   \* "loop", "case", "done", "crashed" (uncaught exception);
                   \* of manual_tester.main: "parse", "standalone_loop",
                   \* "returned", "crashed"
    i,             \* main.py: the enumerate(test_cases, 1) counter
    stage,         \* state of the case being processed
    log_filename,  \* process_test_case: number n of execution_log_<n>.md
    log_content,   \* process_test_case: the text read from the artifact
    results,       \* main.py: the results list
    runner_calls,  \* one record per run_oagi_agent call
    eval_calls,    \* batch positions for which evaluate_ease_of_use was called
    llm_calls,     \* batch positions for which the judge LLM was invoked
    hist,          \* per case: how far process_test_case got and what it saw
    last_run,      \* the launches of the current case's run_oagi_agent call
    last_eval,     \* the judge's answer and the outcome of the current case's
                   \* evaluate_ease_of_use call
    summary_printed, \* print_summary has run
    report         \* what print_summary wrote to standard output

vars ==
    << entry, yaml_input, test_cases, env_key, fs, pc, i, stage, log_filename, log_content,
       results, runner_calls, eval_calls, llm_calls, hist, last_run, last_eval,
       summary_printed, report >>


(* ------------------------- the file system ----------------------------- *)

\* Numbers n of the artifact paths execution_log_<n>.md the run may touch.
LogNumbers == 1..(MaxCases + 1)

\* No file at the path.
Absent == [exists |-> FALSE, readable |-> FALSE, writer |-> -1]

\* A file left at the path by an earlier run (writer 0).
Stale == [exists |-> TRUE, readable |-> TRUE, writer |-> 0]

\* The file system after the external agent, run for case `index` with
\* --export-file n, has had the given effect.
WriteArtifact(files, n, effect, index) ==
    CASE effect = "write" ->
           [files EXCEPT ![n] = [exists |-> TRUE, readable |-> TRUE, writer |-> index]]
      [] effect = "write_unreadable" ->
           [files EXCEPT ![n] = [exists |-> TRUE, readable |-> FALSE, writer |-> index]]
      [] OTHER -> files

(* --------------------------- pure parts -------------------------------- *)

\* TestResult(task, success, ease_score, summary, error) with its defaults.
TestResult(task, success, ease_score, summary, error) ==
    [task |-> task, success |-> success, ease_score |-> ease_score,
     summary |-> summary, error |-> error]

\* f"Task: {task}\n\nSuccess Criteria: {success_criteria}"
Instruction(task, success_criteria) ==
    << "Task: ", task, "\n\nSuccess Criteria: ", success_criteria >>

\* Variant of LogFilename: the name does not depend on the index.
LogFilename_Fixed(index) == 2

\* f"execution_log_{index + 1}.md", as the number in the name.
LogFilename(index) == index + 1

\* Variant of run_oagi_agent: the fallback is also tried after a non-zero
\* exit of the primary command.
run_oagi_agent_FallbackOnAnyError(primary, fallback) ==
    IF primary = "ok"
    THEN [fallback_attempted |-> FALSE, raised |-> FALSE, error |-> None]
    ELSE IF primary = "oserror"
    THEN [fallback_attempted |-> FALSE, raised |-> TRUE,
          error |-> LaunchError(primary)]
    ELSE IF fallback = "ok"
    THEN [fallback_attempted |-> TRUE, raised |-> FALSE, error |-> None]
    ELSE [fallback_attempted |-> TRUE, raised |-> TRUE,
          error |-> LaunchError(fallback)]

\* run_oagi_agent, given the outcome of the primary launch ("oagi ...") and
\* the outcome the fallback launch ("./.venv/bin/oagi ...") has if attempted.
run_oagi_agent(primary, fallback) ==
    CASE primary = "ok" ->
           [fallback_attempted |-> FALSE, raised |-> FALSE, error |-> None]
      [] primary = "nonzero" ->
           [fallback_attempted |-> FALSE, raised |-> TRUE,
            error |-> LaunchError(primary)]
      [] primary = "notfound" ->
           IF fallback = "ok"
           THEN [fallback_attempted |-> TRUE, raised |-> FALSE, error |-> None]
           ELSE [fallback_attempted |-> TRUE, raised |-> TRUE,
                 error |-> LaunchError(fallback)]
      [] OTHER ->
           [fallback_attempted |-> FALSE, raised |-> TRUE,
            error |-> LaunchError(primary)]

\* The external agent process actually ran (and may have written its export).
AgentRan(primary, fallback) ==
    \/ primary \in {"ok", "nonzero"}
    \/ primary = "notfound" /\ fallback \in {"ok", "nonzero"}

\* Variant of StageAfterRunner: a failed runner call is tried again.
StageAfterRunner_Retry(run) == IF run.raised THEN "RUNNING" ELSE "ARTIFACT_CHECK"

\* Variant of StageAfterRunner: the runner's exception is swallowed and the
\* case goes on to the artifact check.
StageAfterRunner_Swallowed(run) == "ARTIFACT_CHECK"

\* process_test_case, step 1: the stage that follows the runner call.
StageAfterRunner(run) == IF run.raised THEN "FAILED" ELSE "ARTIFACT_CHECK"

\* Variant of ArtifactCheck: the existence test always passes, so a missing
\* file is read as an empty artifact.
ArtifactCheck_NoExistsTest(file) ==
    IF file.exists /\ ~file.readable THEN "unreadable" ELSE "read"

\* process_test_case, step 2: os.path.exists, then open and read.
\*   "missing"     the path does not exist
\*   "unreadable"  it exists but open() or read() raises
\*   "read"        its content was read
ArtifactCheck(file) ==
    IF ~file.exists THEN "missing"
    ELSE IF ~file.readable THEN "unreadable"
    ELSE "read"

\* The error text of the missing-artifact TestResult.
LogFileNotCreated == "Log file not created"

\* Variant of ValidEvaluation: the upper bound le=10 is missing.
ValidEvaluation_NoUpperBound(response) == response.ease_score >= 1

\* The constraints of EaseOfUseEvaluation: summary and justification are
\* plain str fields, ease_score is an int with ge=1 and le=10.
ValidEvaluation(response) ==
    /\ response.ease_score >= 1
    /\ response.ease_score <= 10

\* The ValueError message of evaluate_ease_of_use.
KeyNotSet == "OPENROUTER_API_KEY environment variable not set"

\* str(e) of a structured-output validation failure.
ValidationError == "validation error for EaseOfUseEvaluation"

\* The judge's behaviours: the call raises, or it answers with a response.
JudgeOutcomes ==
    [kind : {"raise"}, error : CallErrors, response : {NoEvaluation}]
    \cup [kind : {"respond"}, error : {None}, response : RawResponses]

\* evaluate_ease_of_use(steps_description) with api_key=None: the credential
\* check, then the judge call and the validation of its structured response.
evaluate_ease_of_use(key, judge) ==
    IF key \in {"unset", "empty"}
    THEN [raised |-> TRUE, error |-> KeyNotSet, evaluation |-> NoEvaluation,
          llm_called |-> FALSE]
    ELSE IF judge.kind = "raise"
    THEN [raised |-> TRUE, error |-> judge.error, evaluation |-> NoEvaluation,
          llm_called |-> TRUE]
    ELSE IF ~ValidEvaluation(judge.response)
    THEN [raised |-> TRUE, error |-> ValidationError, evaluation |-> NoEvaluation,
          llm_called |-> TRUE]
    ELSE [raised |-> FALSE, error |-> None, evaluation |-> judge.response,
          llm_called |-> TRUE]

\* process_test_case, step 3: the TestResult built from the evaluation call.
EvaluationResult(task, ev) ==
    IF ev.raised
    THEN TestResult(task, FALSE, NoScore, None, ev.error)
    ELSE TestResult(task, TRUE, ev.evaluation.ease_score,
                    ev.evaluation.summary, None)


(* ---------------------------- the report ------------------------------- *)

\* The length at which print_summary cuts a task.
TruncateAt == 45

\* The "..." appended to a cut task.
Ellipsis == << ".", ".", "." >>

\* The pass or fail icon of a report line.
Icon(result) == IF result.success THEN "pass" ELSE "fail"

\* Variant of TaskDisplay: the ellipsis is appended to every task, cut or not.
TaskDisplay_AlwaysEllipsis(task) ==
    IF Len(task) > TruncateAt
    THEN SubSeq(task, 1, TruncateAt) \o Ellipsis
    ELSE task \o Ellipsis

\* result.task[:45] + "..." if len(result.task) > 45 else result.task
TaskDisplay(task) ==
    IF Len(task) > TruncateAt
    THEN SubSeq(task, 1, TruncateAt) \o Ellipsis
    ELSE task

\* Truthiness of result.error: neither None nor the empty string.
Truthy(text) == text # None /\ text # ""

\* score_str of a report line: the ease score with one decimal (in tenths),
\* else the error marker when result.error is truthy, else nothing.
ScoreStr(result) ==
    IF result.ease_score # NoScore
    THEN [kind |-> "ease", tenths |-> 10 * result.ease_score]
    ELSE IF Truthy(result.error)
    THEN [kind |-> "error", tenths |-> NoScore]
    ELSE [kind |-> "none", tenths |-> NoScore]

\* One line of the report: "  {icon} Test {i}: {task_display}{score_str}".
ReportLine(n, result) ==
    [index |-> n, icon |-> Icon(result), task_display |-> TaskDisplay(result.task),
     score_str |-> ScoreStr(result)]

\* passed = sum(1 for r in results if r.success)
Passed(rs) == Cardinality({k \in 1..Len(rs) : rs[k].success})

\* scores = [r.ease_score for r in results if r.ease_score is not None]
HasScore(r) == r.ease_score # NoScore

\* Variant of Scores: results without a score are not left out.
Scores_Unfiltered(rs) == rs

Scores(rs) == SelectSeq(rs, HasScore)

RECURSIVE SumScores(_)
\* sum(scores)
SumScores(scored) ==
    IF scored = << >> THEN 0
    ELSE Head(scored).ease_score + SumScores(Tail(scored))

\* f"{num/den:.1f}" in tenths: num/den rounded to one decimal, ties to even.
FormatOneDecimal(num, den) ==
    LET q == (10 * num) \div den
        r == (10 * num) % den
    IN  IF 2 * r < den THEN q
        ELSE IF 2 * r > den THEN q + 1
        ELSE IF q % 2 = 0 THEN q ELSE q + 1

\* avg_score stays None: no result carries a score.
NoAverage == [sum |-> 0, count |-> 0]

\* avg_score = sum(scores) / len(scores) if scores, as the fraction sum/count.
Average(rs) ==
    IF Scores(rs) = << >> THEN NoAverage
    ELSE [sum |-> SumScores(Scores(rs)), count |-> Len(Scores(rs))]

\* The "Average Ease Score" line: printed only if avg_score is not None.
AverageLine(avg) ==
    IF avg = NoAverage THEN [printed |-> FALSE, tenths |-> NoScore]
    ELSE [printed |-> TRUE, tenths |-> FormatOneDecimal(avg.sum, avg.count)]

\* print_summary(results): the lines, the totals line and the average line.
print_summary(rs) ==
    [lines |-> [n \in 1..Len(rs) |-> ReportLine(n, rs[n])],
     passed |-> Passed(rs),
     total |-> Len(rs),
     avg_score |-> Average(rs),
     average_line |-> AverageLine(Average(rs))]

\* Nothing has been printed.
NoReport ==
    [lines |-> << >>, passed |-> 0, total |-> 0, avg_score |-> NoAverage,
     average_line |-> [printed |-> FALSE, tenths |-> NoScore]]

(* ---------------------- the standalone entry point --------------------- *)

\* process_test_case(task, success_criteria, index): required parameters.
ProcessTestCaseParams == 3

\* process_test_case(test_case, i): arguments passed by manual_tester.main.
StandaloneCallArgs == 2

\* Binding positional arguments to required parameters fails unless their
\* numbers agree.
CallRaisesTypeError(given, required) == given # required

(* ------------------------- per-case history ---------------------------- *)

\* The judge was not consulted.
NoJudge == [kind |-> "none", error |-> None, response |-> NoEvaluation]

\* evaluate_ease_of_use was not called.
NoEval ==
    [raised |-> FALSE, error |-> None, evaluation |-> NoEvaluation,
     llm_called |-> FALSE]

\* What is known of a case when process_test_case is entered.
NewCase == [runner |-> "none", artifact |-> "none", called |-> FALSE]

\* run_oagi_agent has not been called for the current case.
NoRun ==
    [primary |-> "none", fallback |-> "none", fallback_attempted |-> FALSE,
     raised |-> FALSE, error |-> None]

\* evaluate_ease_of_use has not been called for the current case.
NotEvaluated == [judge |-> NoJudge, eval |-> NoEval]

\* log_content before the artifact has been read.
NoContent == -1

(* ------------------------------ Init ----------------------------------- *)

RECURSIVE SeqsUpTo(_, _)
\* All sequences over S of length at most n.
SeqsUpTo(S, n) ==
    IF n = 0 THEN {<< >>}
    ELSE LET shorter == SeqsUpTo(S, n - 1)
         IN  shorter \cup {Append(q, x) : q \in shorter, x \in S}

\* The two scripts with a main(): main.py and manual_tester.py.
EntryPoints == {"main", "manual_tester"}

\* A field of a YAML record: absent, not a string, or a string.
Missing == [kind |-> "missing", text |-> << >>]

NotAString == [kind |-> "nonstr", text |-> << >>]

Str(text) == [kind |-> "str", text |-> text]

\* The records explored: complete ones, one with the empty string in both
\* fields, one lacking success_criteria and one whose task is not a string.
RawRecords ==
    {[task_statement |-> Str(t), success_criteria |-> Str(c)] :
        t \in Tasks, c \in Criteria}
    \cup {[task_statement |-> Str(<< >>), success_criteria |-> Str(<< >>)],
          [task_statement |-> Str(<< "a" >>), success_criteria |-> Missing],
          [task_statement |-> NotAString, success_criteria |-> Str(<< "c" >>)]}

\* What the YAML file may be: not openable, not YAML, empty (safe_load gives
\* None), a document that is not a list, or a list of records.
RawInputs ==
    {[kind |-> k, data |-> << >>] :
        k \in {"file_not_found", "permission_denied", "os_error",
               "invalid_yaml", "empty", "not_a_list"}}
    \cup {[kind |-> "list", data |-> d] : d \in SeqsUpTo(RawRecords, MaxCases)}

\* TestCase validation of one record: both fields are required str fields.
ValidRecord(rec) ==
    /\ rec.task_statement.kind = "str"
    /\ rec.success_criteria.kind = "str"

\* The TestCase built from a valid record.
TestCase(rec) ==
    [task_statement |-> rec.task_statement.text,
     success_criteria |-> rec.success_criteria.text]

\* Variant of parse_test_cases: records are validated one by one and the
\* list ends at the first invalid record.
parse_test_cases_Lazy(input) ==
    IF input.kind # "list"
    THEN [exit |-> TRUE, cases |-> << >>]
    ELSE LET bad == {k \in 1..Len(input.data) : ~ValidRecord(input.data[k])}
             n   == IF bad = {} THEN Len(input.data)
                    ELSE (CHOOSE k \in bad : \A j \in bad : k <= j) - 1
         IN  [exit |-> FALSE, cases |-> [k \in 1..n |-> TestCase(input.data[k])]]

\* parse_test_cases(yaml_path): SystemExit unless the file can be read, is
\* YAML, is not empty and validates as list[TestCase] in all of its records.
parse_test_cases(input) ==
    IF input.kind # "list"
    THEN [exit |-> TRUE, cases |-> << >>]
    ELSE IF \E k \in 1..Len(input.data) : ~ValidRecord(input.data[k])
    THEN [exit |-> TRUE, cases |-> << >>]
    ELSE [exit |-> FALSE,
          cases |-> [k \in 1..Len(input.data) |-> TestCase(input.data[k])]]

\* File systems at start: no artifact, or one artifact left by an earlier run.
InitialFileSystems ==
    {[n \in LogNumbers |-> Absent]}
    \cup {[n \in LogNumbers |-> IF n = m THEN Stale ELSE Absent] : m \in LogNumbers}

\* main.main about to call parse_test_cases(args.yaml_file).
Init ==
    /\ entry \in EntryPoints
    /\ yaml_input \in RawInputs
    /\ test_cases = << >>
    /\ env_key \in EnvKeys
    /\ fs \in InitialFileSystems
    /\ pc = "parse"
    /\ i = 1
    /\ stage = "PENDING"
    /\ log_filename = 0
    /\ log_content = NoContent
    /\ results = << >>
    /\ runner_calls = << >>
    /\ eval_calls = << >>
    /\ llm_calls = << >>
    /\ hist = << >>
    /\ last_run = NoRun
    /\ last_eval = NotEvaluated
    /\ summary_printed = FALSE
    /\ report = NoReport

(* ----------------------------- actions --------------------------------- *)

\* main.main: test_cases = parse_test_cases(args.yaml_file); results = [].
\* A SystemExit ends the process.
ParseTestCases ==
    /\ entry = "main"
    /\ pc = "parse"
    /\ LET parsed == parse_test_cases(yaml_input)
       IN  IF parsed.exit
           THEN pc' = "exit" /\ UNCHANGED test_cases
           ELSE pc' = "loop" /\ test_cases' = parsed.cases
    /\ UNCHANGED << entry, yaml_input, env_key, fs, i, stage, log_filename, log_content,
                    results, runner_calls, eval_calls, llm_calls, hist,
                    last_run, last_eval, summary_printed, report >>

\* manual_tester.main up to its loop: a file that does not exist, a YAML error
\* and a document that is not a list (None included) print a message and
\* return; an existing file that cannot be opened raises out of main; a list
\* is iterated with enumerate from 0.
StandaloneLoad ==
    /\ entry = "manual_tester"
    /\ pc = "parse"
    /\ pc' = CASE yaml_input.kind = "list" -> "standalone_loop"
              [] yaml_input.kind \in {"permission_denied", "os_error"} -> "crashed"
              [] OTHER -> "returned"
    /\ i' = 0
    /\ UNCHANGED << entry, yaml_input, test_cases, env_key, fs, stage, log_filename,
                    log_content, results, runner_calls, eval_calls, llm_calls,
                    hist, last_run, last_eval, summary_printed, report >>

\* manual_tester.main's loop: await process_test_case(test_case, i). The call
\* passes two positional arguments to a function of three required
\* parameters, so it raises TypeError before process_test_case is entered and
\* the exception leaves main; an empty list ends the loop at once.
StandaloneCall ==
    /\ entry = "manual_tester"
    /\ pc = "standalone_loop"
    /\ IF i < Len(yaml_input.data)
       THEN /\ CallRaisesTypeError(StandaloneCallArgs, ProcessTestCaseParams)
            /\ pc' = "crashed"
       ELSE pc' = "returned"
    /\ UNCHANGED << entry, yaml_input, test_cases, env_key, fs, i, stage,
                    log_filename, log_content, results, runner_calls, eval_calls,
                    llm_calls, hist, last_run, last_eval, summary_printed, report >>

\* main.main takes the next case and enters process_test_case, which builds
\* the instruction and the log file name (PENDING -> RUNNING).
StartCase ==
    /\ pc = "loop"
    /\ i <= Len(test_cases)
    /\ pc' = "case"
    /\ stage' = "RUNNING"
    /\ log_filename' = LogFilename(i)
    /\ log_content' = NoContent
    /\ hist' = Append(hist, NewCase)
    /\ last_run' = NoRun
    /\ last_eval' = NotEvaluated
    /\ UNCHANGED << entry, yaml_input, test_cases, env_key, fs, i, results, runner_calls,
                    eval_calls, llm_calls, summary_printed, report >>

\* Step 1 of process_test_case: run_oagi_agent(instruction, log_filename).
\* A raised exception becomes the TestResult that main.main appends.
RunAgent ==
    /\ pc = "case"
    /\ stage = "RUNNING"
    /\ \E primary \in LaunchOutcomes, fallback \in LaunchOutcomes, effect \in ToolEffects :
         LET tc  == test_cases[i]
             run == run_oagi_agent(primary, fallback)
             eff == IF AgentRan(primary, fallback) THEN effect ELSE "none"
             nxt == StageAfterRunner(run)
         IN  /\ runner_calls' =
                  Append(runner_calls,
                         [index |-> i,
                          instruction |-> Instruction(tc.task_statement, tc.success_criteria),
                          output_file |-> log_filename])
             /\ last_run' =
                  [primary |-> primary,
                   fallback |-> IF run.fallback_attempted THEN fallback ELSE "none",
                   fallback_attempted |-> run.fallback_attempted,
                   raised |-> run.raised,
                   error |-> run.error]
             /\ fs' = WriteArtifact(fs, log_filename, eff, i)
             /\ hist' = [hist EXCEPT ![i].runner = IF run.raised THEN "raised" ELSE "ok"]
             /\ stage' = nxt
             /\ IF nxt = "FAILED"
                THEN /\ results' = Append(results,
                                          TestResult(tc.task_statement, FALSE, NoScore,
                                                     None, run.error))
                     /\ i' = i + 1
                     /\ pc' = "loop"
                ELSE UNCHANGED << results, i, pc >>
    /\ UNCHANGED << entry, yaml_input, test_cases, env_key, log_filename, log_content, eval_calls,
                    llm_calls, last_eval, summary_printed, report >>

\* Step 2 of process_test_case: the existence test, then open and read. A
\* missing file becomes a TestResult; an exception of open() or read() is
\* raised outside every try block, leaves process_test_case and ends main.main.
CheckArtifact ==
    /\ pc = "case"
    /\ stage = "ARTIFACT_CHECK"
    /\ LET tc    == test_cases[i]
           found == ArtifactCheck(fs[log_filename])
       IN  /\ hist' = [hist EXCEPT ![i].artifact = found]
           /\ CASE found = "missing" ->
                     /\ results' = Append(results,
                                          TestResult(tc.task_statement, FALSE, NoScore,
                                                     None, LogFileNotCreated))
                     /\ stage' = "FAILED"
                     /\ i' = i + 1
                     /\ pc' = "loop"
                     /\ UNCHANGED log_content
                [] found = "unreadable" ->
                     /\ pc' = "crashed"
                     /\ UNCHANGED << results, stage, i, log_content >>
                [] OTHER ->
                     /\ log_content' = fs[log_filename].writer
                     /\ stage' = "EVALUATING"
                     /\ UNCHANGED << results, i, pc >>
    /\ UNCHANGED << entry, yaml_input, test_cases, env_key, fs, log_filename, runner_calls,
                    eval_calls, llm_calls, last_run, last_eval, summary_printed, report >>

\* Step 3 of process_test_case: await evaluate_ease_of_use(log_content); its
\* result or its exception becomes the TestResult that main.main appends.
Evaluate ==
    /\ pc = "case"
    /\ stage = "EVALUATING"
    /\ \E judge \in JudgeOutcomes :
         LET tc  == test_cases[i]
             ev  == evaluate_ease_of_use(env_key, judge)
             res == EvaluationResult(tc.task_statement, ev)
         IN  /\ eval_calls' = Append(eval_calls, i)
             /\ llm_calls' = IF ev.llm_called THEN Append(llm_calls, i) ELSE llm_calls
             /\ hist' = [hist EXCEPT ![i].called = TRUE]
             /\ last_eval' = [judge |-> IF ev.llm_called THEN judge ELSE NoJudge,
                              eval |-> ev]
             /\ results' = Append(results, res)
             /\ stage' = IF res.success THEN "SUCCEEDED" ELSE "FAILED"
             /\ i' = i + 1
             /\ pc' = "loop"
    /\ UNCHANGED << entry, yaml_input, test_cases, env_key, fs, log_filename, log_content,
                    runner_calls, last_run, summary_printed, report >>

\* Variant of PrintSummary: the report is printed inside the loop, whenever a
\* case has returned.
PrintSummary_InsideLoop ==
    /\ pc = "loop"
    /\ summary_printed' = TRUE
    /\ report' = print_summary(results)
    /\ pc' = IF i > Len(test_cases) THEN "done" ELSE "loop"
    /\ UNCHANGED << entry, yaml_input, test_cases, env_key, fs, i, stage, log_filename,
                    log_content, results, runner_calls, eval_calls, llm_calls,
                    hist, last_run, last_eval >>

\* The loop of main.main is exhausted: manual_tester.print_summary(results).
PrintSummary ==
    /\ pc = "loop"
    /\ i > Len(test_cases)
    /\ summary_printed' = TRUE
    /\ report' = print_summary(results)
    /\ pc' = "done"
    /\ UNCHANGED << entry, yaml_input, test_cases, env_key, fs, i, stage, log_filename, log_content,
                    results, runner_calls, eval_calls, llm_calls, hist,
                    last_run, last_eval >>

Next ==
    \/ ParseTestCases
    \/ StandaloneLoad
    \/ StandaloneCall
    \/ StartCase
    \/ RunAgent
    \/ CheckArtifact
    \/ Evaluate
    \/ PrintSummary

Spec == Init /\ [][Next]_vars

(* ---------------------- print_summary on its own ----------------------- *)

\* Task statements around the length at which print_summary cuts.
ReportTasks == {Text(1), Text(TruncateAt), Text(TruncateAt + 1)}

\* TestResults as process_test_case returns them: scored successes, and
\* failures with an empty or a non-empty error.
ReportResults ==
    {TestResult(t, TRUE, sc, "s", None) : t \in ReportTasks, sc \in {1, 2, 10}}
    \cup {TestResult(t, FALSE, NoScore, None, e) :
             t \in ReportTasks, e \in {"", LogFileNotCreated}}

\* main.main at the end of its loop over a batch that produced the given
\* results, about to call print_summary.
InitReport ==
    /\ entry = "main"
    /\ results \in SeqsUpTo(ReportResults, MaxResults)
    /\ yaml_input =
         [kind |-> "list",
          data |-> [k \in 1..Len(results) |->
                      [task_statement |-> Str(results[k].task),
                       success_criteria |-> Str(<< "c" >>)]]]
    /\ test_cases = [k \in 1..Len(results) |->
                       [task_statement |-> results[k].task,
                        success_criteria |-> << "c" >>]]
    /\ env_key = "key"
    /\ fs = [n \in LogNumbers |-> Absent]
    /\ pc = "loop"
    /\ i = Len(results) + 1
    /\ stage = "PENDING"
    /\ log_filename = 0
    /\ log_content = NoContent
    /\ runner_calls = << >>
    /\ eval_calls = << >>
    /\ llm_calls = << >>
    /\ hist = << >>
    /\ last_run = NoRun
    /\ last_eval = NotEvaluated
    /\ summary_printed = FALSE
    /\ report = NoReport

NextReport == PrintSummary

SpecReport == InitReport /\ [][NextReport]_vars


(* ---------------------- vocabulary of the claims ----------------------- *)

\* The batch position of the case last entered.
Last == Len(hist)

\* process_test_case has returned for the case last entered, and no later
\* case has been entered: last_run and last_eval describe the last result.
LastReturned ==
    /\ pc \in {"loop", "done"}
    /\ Len(results) >= 1
    /\ Len(results) = Last

\* A text field holds a non-empty string.
Present(text) == text # None /\ text # ""

\* The failure descriptions a failed run_oagi_agent call can carry.
RunnerErrors == {LaunchError(o) : o \in LaunchOutcomes \ {"ok"}}

\* Cases whose runner succeeded and whose artifact was found and read.
PassedEarlierStages ==
    {k \in 1..Len(hist) : hist[k].runner = "ok" /\ hist[k].artifact = "read"}

\* main.main has stopped, with or without its report.
Stopped == pc \in {"done", "crashed"}

(* ------------------------------- C1 ------------------------------------ *)

\* C1: whatever the per-case outcomes, the loop of main.main ends with exactly
\* one TestResult per loaded TestCase, the i-th result echoing the i-th case's
\* task_statement (nothing skipped, duplicated or reordered).
C1_OneResultPerCaseInOrder ==
    /\ Len(results) <= Len(test_cases)
    /\ \A k \in 1..Len(results) : results[k].task = test_cases[k].task_statement
    /\ Stopped => Len(results) = Len(test_cases)

(* ------------------------------- C2 ------------------------------------ *)

\* C2: a case's TestResult has success=true exactly when its runner succeeded,
\* its artifact existed and the evaluation returned a validated Evaluation;
\* evaluate_ease_of_use is called only for cases that passed the runner and the
\* artifact stage, once for each of them.
C2_SuccessIffAllStagesPassed ==
    /\ LastReturned =>
         ( results[Last].success
           <=> /\ last_run.primary # "none"
               /\ ~last_run.raised
               /\ hist[Last].artifact \in {"read", "unreadable"}
               /\ hist[Last].called
               /\ ~last_eval.eval.raised
               /\ last_eval.eval.evaluation.ease_score \in 1..10 )
    /\ \A k \in 1..Len(results) :
         results[k].success =>
            hist[k].runner = "ok" /\ hist[k].artifact = "read" /\ hist[k].called
    /\ \A c \in 1..Len(eval_calls) :
         /\ hist[eval_calls[c]].runner = "ok"
         /\ hist[eval_calls[c]].artifact = "read"
    /\ \A k \in 1..Len(hist) :
         hist[k].called <=> \E c \in 1..Len(eval_calls) : eval_calls[c] = k
    /\ ~(pc = "case" /\ stage = "EVALUATING") =>
         Len(eval_calls) = Cardinality(PassedEarlierStages)

\* A finished batch of two: a runner failure, not evaluated, followed by a
\* case that passed every stage, with exactly one evaluation call.
C2_Witness ==
    /\ pc = "done"
    /\ Len(results) = 2
    /\ ~results[1].success
    /\ hist[1].runner = "raised"
    /\ results[2].success
    /\ eval_calls = << 2 >>


(* ------------------------------- C3 ------------------------------------ *)

\* C3: when no credential is available (OPENROUTER_API_KEY unset or empty and
\* no explicit api_key), the run ends before the Agent Runner is invoked for
\* any case: such a run contains no run_oagi_agent call.
C3_NoRunnerCallWithoutCredential ==
    env_key \in {"unset", "empty"} => runner_calls = << >>

(* ------------------------------- C4 ------------------------------------ *)

\* C4: a case whose runner succeeded but whose artifact exists and cannot be
\* read ends FAILED: process_test_case returns a TestResult with success=false
\* and error set, no exception leaves it, and the batch goes on.
C4_UnreadableArtifactIsRecorded ==
    \A k \in 1..Len(hist) :
        hist[k].artifact = "unreadable" =>
            /\ pc # "crashed"
            /\ k <= Len(results)
            /\ ~results[k].success
            /\ Present(results[k].error)

(* ------------------------------- C5 ------------------------------------ *)

\* C5: for the case at 1-based position n, the artifact path given to the
\* Agent Runner, and checked and read afterwards, is execution_log_<n>.md.
C5_ArtifactPathIsBatchPosition ==
    /\ \A c \in 1..Len(runner_calls) :
         runner_calls[c].output_file = runner_calls[c].index
    /\ pc = "case" => log_filename = i

(* ------------------------------- C6 ------------------------------------ *)

\* The runner of the case last entered returned normally, no file is at the
\* case's artifact path, and the artifact step has been taken.
RunnerOkArtifactAbsent ==
    /\ Last >= 1
    /\ last_run.primary # "none"
    /\ ~last_run.raised
    /\ ~fs[log_filename].exists
    /\ ~(pc = "case" /\ stage = "ARTIFACT_CHECK")

\* C6 as stated: runner exit 0 with the artifact absent yields a TestResult
\* with success=false and error "artifact not created", distinct from every
\* runner-failure description, and no evaluation.
C6_ArtifactNotCreated_AsStated ==
    RunnerOkArtifactAbsent =>
        /\ pc # "crashed"
        /\ Len(results) = Last
        /\ ~results[Last].success
        /\ results[Last].error = "artifact not created"
        /\ results[Last].error \notin RunnerErrors
        /\ ~hist[Last].called

\* C6 (amended): runner exit 0 with the artifact absent yields a TestResult
\* with success=false and error "Log file not created", distinct from every
\* runner-failure description, without score or summary, and no evaluation.
C6_LogFileNotCreated ==
    RunnerOkArtifactAbsent =>
        /\ pc # "crashed"
        /\ Len(results) = Last
        /\ ~results[Last].success
        /\ results[Last].error = "Log file not created"
        /\ results[Last].error \notin RunnerErrors
        /\ results[Last].ease_score = NoScore
        /\ results[Last].summary = None
        /\ ~hist[Last].called
        /\ \A c \in 1..Len(eval_calls) : eval_calls[c] # Last

\* The second case of a batch: its fallback launch exited 0, nothing was
\* exported, and the case has been reported.
C6_Witness ==
    /\ RunnerOkArtifactAbsent
    /\ Last = 2
    /\ last_run.primary = "notfound"
    /\ last_run.fallback = "ok"
    /\ Len(results) = 2

(* ------------------------------- C7 ------------------------------------ *)

\* C7: in every TestResult, ease_score is present iff success; summary is
\* present iff the evaluation succeeded; error is present, as a non-empty
\* description, iff some stage failed; so exactly one of {ease_score and
\* summary, error} is present, also when the caught exception's message is
\* empty.
C7_ExactlyOneOfScoreOrError ==
    /\ \A k \in 1..Len(results) :
         LET r == results[k]
             scored == r.ease_score # NoScore /\ r.summary # None
         IN  /\ r.ease_score # NoScore <=> r.success
             /\ r.summary # None <=> r.success
             /\ Present(r.error) <=> ~r.success
             /\ scored # Present(r.error)
    /\ LastReturned =>
         ( results[Last].summary # None
           <=> hist[Last].called /\ ~last_eval.eval.raised )

(* ------------------------------- C8 ------------------------------------ *)

\* run_oagi_agent has been called for the case last entered.
RunnerCalled == last_run.primary # "none"

\* C8 as stated: the fallback is attempted iff the primary command is
\* unresolvable; a non-zero primary exit fails without fallback; the runner
\* fails exactly when the primary exits non-zero, or the primary is
\* unresolvable and the fallback is unresolvable or exits non-zero.
C8_FallbackIffUnresolvable_AsStated ==
    RunnerCalled =>
        /\ last_run.fallback_attempted <=> last_run.primary = "notfound"
        /\ last_run.primary = "nonzero" =>
              last_run.raised /\ ~last_run.fallback_attempted
        /\ last_run.raised <=>
              \/ last_run.primary = "nonzero"
              \/ /\ last_run.primary = "notfound"
                 /\ last_run.fallback \in {"notfound", "nonzero"}

\* C8 (amended): the fallback is attempted iff the primary command is
\* unresolvable; a non-zero primary exit fails without fallback; the runner
\* fails exactly when the primary exits non-zero or cannot be launched for
\* another reason than being unresolvable, or the primary is unresolvable and
\* the fallback does anything but exit 0; a failed runner ends the case FAILED
\* with the failing launch's description.
C8_FallbackIffUnresolvable ==
    RunnerCalled =>
        /\ last_run.fallback_attempted <=> last_run.primary = "notfound"
        /\ last_run.fallback # "none" <=> last_run.primary = "notfound"
        /\ last_run.primary = "nonzero" =>
              last_run.raised /\ ~last_run.fallback_attempted
        /\ last_run.raised <=>
              \/ last_run.primary \in {"nonzero", "oserror"}
              \/ /\ last_run.primary = "notfound"
                 /\ last_run.fallback \in {"notfound", "nonzero", "oserror"}
        /\ last_run.raised =>
              /\ Len(results) = Last
              /\ ~results[Last].success
              /\ results[Last].error \in RunnerErrors
              /\ hist[Last].artifact = "none"

\* The primary command was unresolvable and the fallback exited non-zero: the
\* case has been reported as failed.
C8_Witness ==
    /\ RunnerCalled
    /\ last_run.primary = "notfound"
    /\ last_run.fallback = "nonzero"
    /\ last_run.raised
    /\ Len(results) = Last

(* ------------------------------- C9 ------------------------------------ *)

\* C9: a judge response with an empty summary or justification, or with an
\* ease_score outside 1..10, is an evaluation failure (success=false, error
\* set); hence every TestResult with success=true has a non-empty summary.
C9_InvalidResponseIsFailure ==
    /\ ( LastReturned /\ last_eval.judge.kind = "respond" ) =>
         LET resp == last_eval.judge.response
         IN  ( \/ resp.summary = ""
               \/ resp.justification = ""
               \/ resp.ease_score \notin 1..10 )
             => ~results[Last].success /\ Present(results[Last].error)
    /\ \A k \in 1..Len(results) :
         results[k].success => Present(results[k].summary)

(* ------------------------------- C10 ----------------------------------- *)

\* C10: in every TestResult, ease_score is absent or an integer in 1..10,
\* equal to the ease_score of the Evaluation returned for that case.
C10_ScoreInRangeAndEchoed ==
    /\ \A k \in 1..Len(results) :
         results[k].ease_score = NoScore \/ results[k].ease_score \in 1..10
    /\ LastReturned =>
         IF results[Last].ease_score = NoScore
         THEN ~hist[Last].called \/ last_eval.eval.raised
         ELSE /\ hist[Last].called
              /\ ~last_eval.eval.raised
              /\ last_eval.judge.kind = "respond"
              /\ results[Last].ease_score = last_eval.judge.response.ease_score
              /\ results[Last].ease_score = last_eval.eval.evaluation.ease_score

\* A finished batch whose first case scored 10 and whose second was judged
\* with the out-of-range score 11 and so carries no score.
C10_Witness ==
    /\ LastReturned
    /\ Last = 2
    /\ results[1].ease_score = 10
    /\ last_eval.judge.kind = "respond"
    /\ last_eval.judge.response.ease_score = 11
    /\ results[2].ease_score = NoScore


(* ------------------------------- C11 ----------------------------------- *)

\* Positions of the results that carry an ease_score.
Scored == {k \in 1..Len(results) : results[k].ease_score # NoScore}

RECURSIVE ScoreTotal(_)
\* The sum of the ease_scores present in the first n results.
ScoreTotal(n) ==
    IF n = 0 THEN 0
    ELSE ScoreTotal(n - 1)
         + (IF results[n].ease_score # NoScore THEN results[n].ease_score ELSE 0)

\* C11: print_summary reports total = number of results, passed = number of
\* results with success=true, and the average sum/count of the present
\* ease_scores (shown to the nearest tenth); the average line is omitted
\* exactly when no result has a score. For a batch of 3 where only case 2
\* fails, it shows 2/3 passed and the average of the scores of cases 1 and 3.
C11_TotalsAndAverage ==
    summary_printed =>
        /\ report.total = Len(results)
        /\ report.passed = Cardinality({k \in 1..Len(results) : results[k].success})
        /\ report.average_line.printed <=> Scored # {}
        /\ Scored = {} => report.avg_score = NoAverage
        /\ Scored # {} =>
              /\ report.avg_score.count = Cardinality(Scored)
              /\ report.avg_score.sum = ScoreTotal(Len(results))
              /\ LET shown == report.average_line.tenths
                     diff  == shown * Cardinality(Scored) - 10 * ScoreTotal(Len(results))
                 IN  /\ 2 * diff <= Cardinality(Scored)
                     /\ 2 * diff >= 0 - Cardinality(Scored)
        /\ ( /\ Len(results) = 3
             /\ results[1].success /\ ~results[2].success /\ results[3].success )
           => /\ report.passed = 2
              /\ report.total = 3
              /\ report.avg_score =
                   [sum |-> results[1].ease_score + results[3].ease_score, count |-> 2]
              /\ report.average_line.tenths =
                   5 * (results[1].ease_score + results[3].ease_score)

\* The report of a batch of three whose second case failed and whose first
\* and third cases scored 1 and 10: 2/3 passed, average 5.5.
C11_Witness ==
    /\ summary_printed
    /\ Len(results) = 3
    /\ results[1].ease_score = 1
    /\ ~results[2].success
    /\ results[3].ease_score = 10
    /\ report.passed = 2
    /\ report.average_line.tenths = 55


(* ------------------------------- C12 ----------------------------------- *)

\* The batch input is malformed, empty or schema-violating: the file cannot
\* be read, is not YAML, is empty, is not a list, or holds a record (the last
\* one included) in which a field is absent or not a string.
BadInput ==
    \/ yaml_input.kind # "list"
    \/ \E k \in 1..Len(yaml_input.data) :
          \/ yaml_input.data[k].task_statement.kind # "str"
          \/ yaml_input.data[k].success_criteria.kind # "str"

\* C12: on malformed, empty or schema-violating input (in any record, the
\* last included) the run aborts with a fatal error before the Agent Runner is
\* invoked for any case; no case is executed before a later record is
\* rejected.
C12_BadInputAbortsBeforeAnyCase ==
    ( entry = "main" /\ BadInput ) =>
        /\ pc \in {"parse", "exit"}
        /\ test_cases = << >>
        /\ runner_calls = << >>
        /\ hist = << >>
        /\ results = << >>
        /\ ~summary_printed

\* The run has ended with SystemExit on a list of two records whose first is
\* valid and whose last lacks success_criteria.
C12_Witness ==
    /\ entry = "main"
    /\ pc = "exit"
    /\ yaml_input.kind = "list"
    /\ Len(yaml_input.data) = 2
    /\ yaml_input.data[1].task_statement.kind = "str"
    /\ yaml_input.data[1].success_criteria.kind = "str"
    /\ yaml_input.data[2].success_criteria.kind = "missing"
    /\ runner_calls = << >>

(* ------------------------------- C13 ----------------------------------- *)

\* C13: every TestCase returned by parse_test_cases, hence every case handed
\* to the Agent Runner, has a non-empty task_statement and a non-empty
\* success_criteria; a record with an empty string in either field is rejected
\* before execution.
C13_FieldsNonEmpty ==
    /\ \A k \in 1..Len(test_cases) :
         /\ test_cases[k].task_statement # << >>
         /\ test_cases[k].success_criteria # << >>
    /\ \A c \in 1..Len(runner_calls) :
         /\ runner_calls[c].instruction[2] # << >>
         /\ runner_calls[c].instruction[4] # << >>


(* ------------------------------- C14 ----------------------------------- *)

\* Cases that have entered process_test_case and have no TestResult yet.
InFlight == {k \in 1..Len(hist) : k > Len(results)}

\* C14: cases are processed strictly one at a time: the runner of case i+1 is
\* invoked only after case i is terminal and its TestResult appended; no two
\* cases are in RUNNING, ARTIFACT_CHECK or EVALUATING at once; print_summary
\* runs only after all N cases are terminal.
C14_StrictlySequential ==
    /\ Cardinality(InFlight) <= 1
    /\ pc = "case" =>
         /\ InFlight = {Last}
         /\ Len(results) = Last - 1
         /\ stage \in {"RUNNING", "ARTIFACT_CHECK", "EVALUATING"}
    /\ pc = "loop" => InFlight = {}
    /\ \A c \in 1..Len(runner_calls) :
         /\ runner_calls[c].index <= Len(results) + 1
         /\ \A k \in 1..Len(results) : k < runner_calls[c].index =>
               hist[k].runner # "none"
    /\ Len(runner_calls) >= 1 =>
         runner_calls[Len(runner_calls)].index >= Len(results)
    /\ summary_printed =>
         /\ Len(results) = Len(test_cases)
         /\ InFlight = {}
         /\ pc = "done"

\* The runner of the second case is about to be invoked; the first case is
\* terminal and its result is in the list.
C14_Witness ==
    /\ pc = "case"
    /\ stage = "RUNNING"
    /\ Last = 2
    /\ Len(results) = 1
    /\ Len(runner_calls) = 1

(* ------------------------------- C15 ----------------------------------- *)

\* The order of the per-case states.
Rank(st) ==
    CASE st = "PENDING"        -> 0
      [] st = "RUNNING"        -> 1
      [] st = "ARTIFACT_CHECK" -> 2
      [] st = "EVALUATING"     -> 3
      [] OTHER                 -> 4

\* One step of the run retries nothing: a runner call takes its case out of
\* RUNNING, an evaluation call takes it to a terminal state, the state of a
\* case only advances, and a terminal state is left only by the next case
\* entering RUNNING.
NoRetryStep ==
    /\ runner_calls' # runner_calls =>
         /\ Len(runner_calls') = Len(runner_calls) + 1
         /\ stage = "RUNNING"
         /\ stage' \in {"ARTIFACT_CHECK", "FAILED"}
    /\ eval_calls' # eval_calls =>
         /\ Len(eval_calls') = Len(eval_calls) + 1
         /\ stage = "EVALUATING"
         /\ stage' \in {"SUCCEEDED", "FAILED"}
    /\ Len(hist') = Len(hist) => Rank(stage') >= Rank(stage)
    /\ ( Len(hist') = Len(hist) /\ stage \in {"SUCCEEDED", "FAILED"} ) =>
         stage' = stage
    /\ Len(hist') # Len(hist) =>
         /\ Len(hist') = Len(hist) + 1
         /\ stage \in {"PENDING", "SUCCEEDED", "FAILED"}
         /\ stage' = "RUNNING"
    /\ last_run.primary # "none" /\ Len(hist') = Len(hist) => last_run' = last_run
    /\ results' # results =>
         /\ Len(results') = Len(results) + 1
         /\ \A k \in 1..Len(results) : results'[k] = results[k]

\* C15: no stage is retried: per case run_oagi_agent is called exactly once
\* (primary and fallback command at most once each), evaluate_ease_of_use at
\* most once, and the case's state only moves forward along PENDING ->
\* RUNNING -> ARTIFACT_CHECK -> EVALUATING -> {SUCCEEDED, FAILED}.
C15_NoRetries == [][NoRetryStep]_vars

\* Two cases have gone through all stages, each with one runner call and one
\* evaluation call.
C15_Witness ==
    /\ stage = "SUCCEEDED"
    /\ Len(results) = 2
    /\ Len(runner_calls) = 2
    /\ runner_calls[1].index = 1
    /\ runner_calls[2].index = 2
    /\ eval_calls = << 1, 2 >>

(* ------------------------------- C16 ----------------------------------- *)

\* C16: within one batch distinct cases have distinct artifact paths, so no
\* case's runner writes to, and no case's evaluation reads from, the artifact
\* path of another case of the batch.
C16_PathsDistinctPerCase ==
    /\ \A c1, c2 \in 1..Len(runner_calls) :
         c1 # c2 => runner_calls[c1].output_file # runner_calls[c2].output_file
    /\ \A n \in LogNumbers :
         fs[n].writer >= 1 =>
            /\ fs[n].writer <= Len(runner_calls)
            /\ runner_calls[fs[n].writer].output_file = n
    /\ ( pc = "case" /\ stage = "EVALUATING" ) =>
         /\ log_content \in {0, Last}
         /\ \A c \in 1..Len(runner_calls) :
               runner_calls[c].output_file = log_filename => runner_calls[c].index = Last

\* The second case is being evaluated on the artifact it wrote itself, while
\* the first case's artifact sits at another path.
C16_Witness ==
    /\ pc = "case"
    /\ stage = "EVALUATING"
    /\ Last = 2
    /\ log_content = 2
    /\ \E n \in LogNumbers : n # log_filename /\ fs[n].writer = 1


(* ------------------------------- C17 ----------------------------------- *)

\* C17: every report line carries the pass indicator iff success=true and the
\* fail indicator otherwise, and either the ease score (when present) or an
\* error marker: every result with success=false is printed with the error
\* marker, whatever its failure description.
C17_FailedLinesCarryErrorMarker ==
    summary_printed =>
        /\ Len(report.lines) = Len(results)
        /\ \A k \in 1..Len(results) :
             LET line == report.lines[k]
             IN  /\ line.icon = "pass" <=> results[k].success
                 /\ line.icon = "fail" <=> ~results[k].success
                 /\ results[k].ease_score # NoScore =>
                       /\ line.score_str.kind = "ease"
                       /\ line.score_str.tenths = 10 * results[k].ease_score
                 /\ ~results[k].success => line.score_str.kind = "error"

(* ------------------------------- C18 ----------------------------------- *)

\* t ends with "...".
EndsWithEllipsis(t) ==
    /\ Len(t) >= 3
    /\ SubSeq(t, Len(t) - 2, Len(t)) = << ".", ".", "." >>

\* C18 as stated: the task label of a report line is at most 45 characters
\* long including its ellipsis; a task of length <= 45 is shown unchanged and
\* a longer one truncated with an ellipsis.
C18_LabelAtMost45_AsStated ==
    summary_printed =>
        \A k \in 1..Len(results) :
            LET task  == results[k].task
                label == report.lines[k].task_display
            IN  /\ Len(label) <= 45
                /\ Len(task) <= 45 => label = task
                /\ Len(task) > 45 => EndsWithEllipsis(label)

\* C18 (amended): a task of length <= 45 is shown unchanged; a longer task is
\* shown as its first 45 characters followed by "...", a label of 48
\* characters.
C18_LabelIs45PlusEllipsis ==
    summary_printed =>
        \A k \in 1..Len(results) :
            LET task  == results[k].task
                label == report.lines[k].task_display
            IN  /\ Len(task) <= 45 => label = task
                /\ Len(task) > 45 =>
                      /\ Len(label) = 48
                      /\ \A j \in 1..45 : label[j] = task[j]
                      /\ EndsWithEllipsis(label)

\* A report with a line for a task of 45 characters, shown whole, and a line
\* for a task of 46 characters, shown as a label of 48.
C18_Witness ==
    /\ summary_printed
    /\ \E k \in 1..Len(results) :
          Len(results[k].task) = 45 /\ Len(report.lines[k].task_display) = 45
    /\ \E k \in 1..Len(results) :
          Len(results[k].task) = 46 /\ Len(report.lines[k].task_display) = 48

(* ------------------------------- C19 ----------------------------------- *)

\* C19: whenever a case reaches EVALUATING, the text handed to
\* evaluate_ease_of_use is the artifact written by that case's own runner
\* invocation in this run; a file already at the path before the runner
\* started never passes the artifact check nor is evaluated in its place.
C19_EvaluatedArtifactIsFresh ==
    ( Last >= 1 /\ hist[Last].artifact = "read" ) =>
        /\ log_content = Last
        /\ fs[log_filename].writer = Last


(* ------------------------------- C20 ----------------------------------- *)

\* C20: manual_tester.main, given a YAML list of k records, drives each of
\* the k records in order through process_test_case to a terminal TestResult,
\* as main.main does; it does not stop on the first record.
C20_StandaloneProcessesEveryRecord ==
    ( /\ entry = "manual_tester"
      /\ yaml_input.kind = "list"
      /\ pc \in {"returned", "crashed"} )
    => /\ pc = "returned"
       /\ Len(hist) = Len(yaml_input.data)
       /\ \A k \in 1..Len(hist) : hist[k].runner # "none"

====
